---- MODULE Spec2Model ----
(***************************************************************************)
(* A model of the odoo-api client: the OdooClient state (URLs, auth state, *)
(* request id counter), the OdooRequest built from it, the four transports *)
(* (closure blocking/async, reqwest blocking/async), the decoding of the    *)
(* JSON-RPC response envelope and the error types the results travel in.   *)
(***************************************************************************)
EXTENDS Integers, Sequences, FiniteSets, TLC

VARIABLES
    client,   \* the OdooClient value the caller holds (or its absence)
    impl,     \* the RequestImpl the client was constructed with
    req,      \* the OdooRequest borrowed from the client, if one is live
    ids,      \* history: the ids stamped on the requests built from the client,
              \* in the order they were built, since the behaviour began
    last,     \* history: the outcome of the operation performed last
    origin,   \* history: the operation the client's auth state comes from, and
              \* the session id that operation obtained
    din,      \* decoder specification: the input (body, response type)
    dout,     \* decoder specification: the result of the function applied
    callers   \* shared-client specification: for each caller that has access to
              \* the one client, how far it is in building a request

vars == <<client, impl, req, ids, last, origin, din, dout, callers>>

(***************************************************************************)
(* Bounds of the model.                                                    *)
(***************************************************************************)
\* how many requests are built from one client before the model stops building
MaxRequests == 3

(***************************************************************************)
(* Program constants.                                                      *)
(***************************************************************************)
\* JsonRpcId = u32.  A u32 is held as its two 16-bit halves <<high, low>>, each
\* in 0 .. Half - 1, so that the counter keeps its 32 bits.
Half == 65536
U32(hi, lo) == <<hi, lo>>
U32Max == U32(Half - 1, Half - 1)
U32Less(a, b) == a[1] < b[1] \/ (a[1] = b[1] /\ a[2] < b[2])
\* x + 1 for x < U32Max
U32Succ(x) == IF x[2] < Half - 1 THEN U32(x[1], x[2] + 1) ELSE U32(x[1] + 1, 0)
\* the id a new client starts from
FirstId == U32(0, 1)

(***************************************************************************)
(* Option<T>: None is the empty sequence, Some(x) the sequence <<x>>.      *)
(***************************************************************************)
None == <<>>
Some(x) == <<x>>

(***************************************************************************)
(* JSON values, as far as the code looks into them.  A scalar is a kind    *)
(* and a number; a value as it appears under "result" also carries what    *)
(* its "uid" member holds when it is an object (NoKey: no such member, or  *)
(* not an object).  An integer is J("int", n) when it fits an i32 (OdooId) *)
(* and J("int64", n), the integer 2^31 + n with n >= 0, when it is beyond  *)
(* an i32 and fits a u32.                                                  *)
(***************************************************************************)
J(k, n) == [k |-> k, n |-> n]
NoKey == J("absent", 0)
Val(k, n) == [k |-> k, n |-> n, uid |-> NoKey]
Obj(u) == [k |-> "obj", n |-> 0, uid |-> u]
Absent == Val("absent", 0)
JNull == Val("null", 0)

\* serde_json::Value with its content, as the requests serialize into it: a
\* string, a number, null, an array, an object.  An object is its keys in
\* ascending order (serde_json::Map is a BTreeMap) and their values.
JString(s) == [k |-> "str", s |-> s]
JNumber(n) == J("int", n)
JArray(items) == [k |-> "list", items |-> items]
JObject(keys, vals) == [k |-> "map", keys |-> keys, vals |-> vals]
\* Option<T>: None serializes as null
JOption(o, value(_)) == IF o = None THEN J("null", 0) ELSE value(o[1])
\* an array all of whose elements are of kind kind (Vec<String>, Vec<OdooId>)
IsArrayOf(v, kind) ==
    v.k = "list" /\ \A i \in DOMAIN v.items : v.items[i].k = kind

\* what a "uid" member may hold: nothing, null, false, an integer that fits an
\* i32, one that does not, a float, a string
UidMembers ==
    { NoKey, J("null", 0), J("bool", 0), J("int", 7), J("int", 2),
      J("int64", 0), J("float", 7), J("str", 0) }

\* what "result" may hold
ResultValues ==
    { JNull, Val("bool", 1), Val("int", 5), Val("str", 0), Val("version", 14),
      JArray(<<JString("db1")>>), JArray(<<JNumber(1)>>) }
        \cup { Obj(u) : u \in UidMembers }

\* The "error" member: present or not, and its members.  data = "partial" is a
\* data object that lacks one of the five fields of JsonRpcErrorData.
ErrVal(c, m, d) == [present |-> TRUE, code |-> c, message |-> m, data |-> d]
NoError == [present |-> FALSE, code |-> 0, message |-> "", data |-> ""]

Messages ==
    { "Odoo Server Error", "404: Not Found", "Odoo Session Expired", "Other" }

ErrorValues ==
    { ErrVal(c, m, d) : c \in {200, 404, -1}, m \in Messages, d \in {"d1", "d2", "partial"} }

\* A response body: valid JSON holding an object or not, and the four members
\* the decoder reads.
Body(v, j, i, r, e) ==
    [valid |-> v, jsonrpc |-> j, id |-> i, result |-> r, error |-> e]
Garbage == Body(FALSE, "absent", NoKey, Absent, NoError)

AllBodies ==
    { Garbage } \cup
    { Body(TRUE, j, i, r, e) :
        j \in {"2.0", "1.0", "absent"},
        i \in {NoKey, J("null", 0), J("int", -1), J("int", 1), J("int", 1000)},
        r \in {Absent} \cup ResultValues,
        e \in {NoError} \cup ErrorValues }

(***************************************************************************)
(* The response types D the endpoints of the model decode into.            *)
(***************************************************************************)
\* Value: a transparent serde_json::Value; Bool: a transparent bool; List:
\* Vec<String>; OptList: Option<Vec<String>>; IdList: Vec<OdooId>; Version: the
\* struct VersionResponse (a JSON object of kind "version" is one with its
\* four members well-typed)
ResponseTypes == {"Value", "Bool", "List", "OptList", "IdList", "Version"}

\* serde: T::deserialize on the "result" member, or on its absence
\* (missing_field: only an Option accepts a missing member, as None)
ResultParses(v, D) ==
    CASE D = "Value"   -> v.k # "absent"
      [] D = "Bool"    -> v.k = "bool"
      [] D = "List"    -> IsArrayOf(v, "str")
      [] D = "OptList" -> v.k \in {"absent", "null"} \/ IsArrayOf(v, "str")
      [] D = "IdList"  -> IsArrayOf(v, "int")
      [] D = "Version" -> v.k = "version"

\* the decoder losing the value it decoded
Typed_Null(v, D) == JNull

\* the typed value: an absent Option member is None, like null
Typed(v, D) == IF v.k = "absent" THEN JNull ELSE v

IsU32(i) == (i.k = "int" /\ i.n >= 0) \/ i.k = "int64"

\* the success shape accepting only a response that carries the id 1
SuccessParses_IdOne(b, D) ==
    /\ b.valid
    /\ b.jsonrpc = "2.0"
    /\ b.id = J("int", 1)
    /\ ResultParses(b.result, D)

\* JsonRpcResponseSuccess<T>: jsonrpc (the enum's one variant "2.0"), id: u32, result: T
SuccessParses(b, D) ==
    /\ b.valid
    /\ b.jsonrpc = "2.0"
    /\ IsU32(b.id)
    /\ ResultParses(b.result, D)

\* JsonRpcError: code: u32, message: String, data: JsonRpcErrorData
JsonRpcErrorParses(e) ==
    /\ e.present
    /\ e.code >= 0
    /\ e.data # "partial"

\* JsonRpcResponseError: jsonrpc, id: u32, error: JsonRpcError
ErrorParses(b) ==
    /\ b.valid
    /\ b.jsonrpc = "2.0"
    /\ IsU32(b.id)
    /\ JsonRpcErrorParses(b.error)

NoPayload == [code |-> 0, message |-> "", data |-> ""]
Payload(e) == [code |-> e.code, message |-> e.message, data |-> e.data]

\* the untagged enum with its variants in the other order: Error is tried first
JsonRpcResponse_ErrorFirst(b, D) ==
    IF ErrorParses(b)
    THEN [variant |-> "Error", result |-> Absent, error |-> Payload(b.error)]
    ELSE IF SuccessParses(b, D)
    THEN [variant |-> "Success", result |-> Typed(b.result, D), error |-> NoPayload]
    ELSE [variant |-> "Invalid", result |-> Absent, error |-> NoPayload]

\* #[serde(untagged)] enum JsonRpcResponse<T>: Success is tried first, then Error
JsonRpcResponse(b, D) ==
    IF SuccessParses(b, D)
    THEN [variant |-> "Success", result |-> Typed(b.result, D), error |-> NoPayload]
    ELSE IF ErrorParses(b)
    THEN [variant |-> "Error", result |-> Absent, error |-> Payload(b.error)]
    ELSE [variant |-> "Invalid", result |-> Absent, error |-> NoPayload]

(***************************************************************************)
(* Errors.  ty is the error enum, variant its variant, inner the variant   *)
(* of the wrapped error (ClosureAuthError::ClosureError(inner), ...),      *)
(* payload the JsonRpcError carried, msg the string of a UidParseError.    *)
(***************************************************************************)
Err(ty, variant, inner, payload, msg) ==
    [ty |-> ty, variant |-> variant, inner |-> inner, payload |-> payload, msg |-> msg]
NoErr == Err("-", "-", "-", NoPayload, "")

UidParseMessage == "Failed to parse UID from /web/session/authenticate call"

\* a Result: Ok(value) or Err(err)
Ok(v) == [ok |-> TRUE, value |-> v, err |-> NoErr]
Fail(e) == [ok |-> FALSE, value |-> Absent, err |-> e]

\* parse_response unwrapping the decoder's result instead of returning its
\* error: an undecodable body aborts the call
parse_response_Unwrap(b, D) ==
    LET response == JsonRpcResponse(b, D) IN
    CASE response.variant = "Success" -> Ok(response.result)
      [] response.variant = "Error" ->
            Fail(Err("ParseResponseError", "JsonRpcError", "-", response.error, ""))
      [] OTHER ->
            Fail(Err("ParseResponseError", "panic", "-", NoPayload, ""))

\* OdooRequest::parse_response
parse_response(b, D) ==
    LET response == JsonRpcResponse(b, D) IN
    CASE response.variant = "Success" -> Ok(response.result)
      [] response.variant = "Error" ->
            Fail(Err("ParseResponseError", "JsonRpcError", "-", response.error, ""))
      [] OTHER ->
            Fail(Err("ParseResponseError", "SerdeJsonError", "-", NoPayload, ""))

(***************************************************************************)
(* URLs are texts; a text is a sequence of tokens, "/" being one token.    *)
(***************************************************************************)
Urls == { <<"h">>, <<"h", "/">> }
JsonRpcPath == <<"/", "jsonrpc">>
AuthPath == <<"/", "web", "/", "session", "/", "authenticate">>
DatabaseListPath == <<"/", "web", "/", "database", "/", "list">>

\* build_urls storing the URL as it was given
build_urls_KeepsSlash(url) == [url |-> url, url_jsonrpc |-> url \o JsonRpcPath]

\* OdooClient::build_urls: one trailing "/" is cut, then "/jsonrpc" appended
build_urls(url) ==
    LET len == Len(url)
        base == IF len > 0 /\ url[len] = "/" THEN SubSeq(url, 1, len - 1) ELSE url
    IN  [url |-> base, url_jsonrpc |-> base \o JsonRpcPath]

(***************************************************************************)
(* The client.                                                             *)
(***************************************************************************)
Impls == {"ClosureBlocking", "ClosureAsync", "ReqwestBlocking", "ReqwestAsync"}
IsClosure(i) == i \in {"ClosureBlocking", "ClosureAsync"}

Databases == {"db1", "db2"}
Logins == {"admin"}
Passwords == {"secret"}
OdooIds == {0, 2, 7}
SessionIds == {None, Some("s1")}

NotAuthed == [state |-> "NotAuthed"]
Authed(db, login, uid, password, session_id) ==
    [state |-> "Authed", database |-> db, login |-> login, uid |-> uid,
     password |-> password, session_id |-> session_id]

\* get_session_id giving a session id where there is no authenticated state
get_session_id_Stale(auth) ==
    IF auth.state = "Authed" THEN auth.session_id ELSE Some("s1")

\* AuthState::get_session_id
get_session_id(auth) ==
    IF auth.state = "Authed" THEN auth.session_id ELSE None

\* the caller holds no client: it was consumed by an authenticate that failed
Gone == [alive |-> FALSE]

\* OdooClient::new
new(url) ==
    LET u == build_urls(url) IN
    [alive |-> TRUE, url |-> u.url, url_jsonrpc |-> u.url_jsonrpc,
     auth |-> NotAuthed, id |-> FirstId]

\* next_id incrementing before it reads: the counter after the increment is issued
next_id_IncrementFirst(c) ==
    { [panicked |-> FALSE, id |-> U32Succ(c.id), after |-> [c EXCEPT !.id = U32Succ(c.id)]] }

\* OdooClient::next_id: the id issued is the counter, which is then incremented.
\* self.id += 1 on a u32 at U32Max wraps to 0 in a build without overflow checks
\* and panics (before the id is returned) in a build with them.
next_id(c) ==
    IF c.id # U32Max
    THEN { [panicked |-> FALSE, id |-> c.id, after |-> [c EXCEPT !.id = U32Succ(c.id)]] }
    ELSE { [panicked |-> FALSE, id |-> c.id, after |-> [c EXCEPT !.id = U32(0, 0)]],
           [panicked |-> TRUE, id |-> c.id, after |-> c] }

\* OdooClient::session_id
session_id(c) == get_session_id(c.auth)

(***************************************************************************)
(* Endpoints: the request types of the model, each with its container     *)
(* kind, whether its client method is implemented for Authed only, the     *)
(* response type it decodes into, and its path.                            *)
(***************************************************************************)
Endpoint(name, kind, auth, rtype, path) ==
    [name |-> name, kind |-> kind, auth |-> auth, rtype |-> rtype, path |-> path]
Version == Endpoint("common_version", "api", FALSE, "Version", JsonRpcPath)
Execute == Endpoint("execute", "api", TRUE, "Value", JsonRpcPath)
Write == Endpoint("write", "orm", TRUE, "Bool", JsonRpcPath)
Search == Endpoint("search", "orm", TRUE, "IdList", JsonRpcPath)
CheckFieldAccessRights ==
    Endpoint("check_field_access_rights", "orm", TRUE, "OptList", JsonRpcPath)
DatabaseList == Endpoint("web_database_list", "web", FALSE, "List", DatabaseListPath)
SessionAuthenticate ==
    Endpoint("web_session_authenticate", "web", FALSE, "Value", AuthPath)
Endpoints == {Version, Execute, Write, Search, CheckFieldAccessRights, DatabaseList}

\* the arguments the caller gives to a client method (the fields that are not
\* filled from client.auth)
Models == {"res.partner"}
CallerArgs(endpoint) ==
    CASE endpoint.name = "execute" ->
            { [model |-> m, method |-> "read", args |-> a] :
                m \in Models,
                a \in { <<>>, <<JArray(<<JNumber(1)>>), JArray(<<JString("id")>>)>> } }
      [] endpoint.name = "write" ->
            { [model |-> m, ids |-> JArray(<<JNumber(2)>>),
               values |-> JObject(<<"name">>, <<JString("x")>>)] : m \in Models }
      [] endpoint.name = "search" ->
            { [model |-> m, domain |-> <<>>, offset |-> o[1], limit |-> None,
               order |-> o[2]] :
                m \in Models, o \in { <<None, None>>, <<Some(5), Some("id")>> } }
      [] endpoint.name = "check_field_access_rights" ->
            { [model |-> m, operation |-> "read", fields |-> <<"id">>] : m \in Models }
      [] OTHER -> { [none |-> TRUE] }

\* the client methods leaving the uid of the authenticated state out
payload_of_UidZero(c, endpoint, a) ==
    CASE endpoint.name = "execute" ->
            [type |-> "Execute", database |-> c.auth.database, uid |-> 0,
             password |-> c.auth.password, model |-> a.model, method |-> a.method,
             args |-> a.args]
      [] endpoint.name = "write" ->
            [type |-> "Write", database |-> c.auth.database, uid |-> 0,
             password |-> c.auth.password, model |-> a.model, ids |-> a.ids,
             values |-> a.values]
      [] endpoint.name = "search" ->
            [type |-> "Search", database |-> c.auth.database, uid |-> 0,
             password |-> c.auth.password, model |-> a.model, domain |-> a.domain,
             offset |-> a.offset, limit |-> a.limit, order |-> a.order]
      [] endpoint.name = "check_field_access_rights" ->
            [type |-> "CheckFieldAccessRights", database |-> c.auth.database,
             uid |-> 0, password |-> c.auth.password, model |-> a.model,
             operation |-> a.operation, fields |-> a.fields]
      [] endpoint.name = "common_version" -> [type |-> "Version"]
      [] endpoint.name = "web_database_list" -> [type |-> "DatabaseList"]

\* the request struct a client method builds: database, uid and password are
\* filled from client.auth, the other fields are the caller's arguments
payload_of(c, endpoint, a) ==
    CASE endpoint.name = "execute" ->
            [type |-> "Execute", database |-> c.auth.database, uid |-> c.auth.uid,
             password |-> c.auth.password, model |-> a.model, method |-> a.method,
             args |-> a.args]
      [] endpoint.name = "write" ->
            [type |-> "Write", database |-> c.auth.database, uid |-> c.auth.uid,
             password |-> c.auth.password, model |-> a.model, ids |-> a.ids,
             values |-> a.values]
      [] endpoint.name = "search" ->
            [type |-> "Search", database |-> c.auth.database, uid |-> c.auth.uid,
             password |-> c.auth.password, model |-> a.model, domain |-> a.domain,
             offset |-> a.offset, limit |-> a.limit, order |-> a.order]
      [] endpoint.name = "check_field_access_rights" ->
            [type |-> "CheckFieldAccessRights", database |-> c.auth.database,
             uid |-> c.auth.uid, password |-> c.auth.password, model |-> a.model,
             operation |-> a.operation, fields |-> a.fields]
      [] endpoint.name = "common_version" -> [type |-> "Version"]
      [] endpoint.name = "web_database_list" -> [type |-> "DatabaseList"]

\* the positional and the keyword arguments an #[odoo_orm] struct declares, as
\* impl_serialize emits them: json!([args..]) and json!({kwargs..})
orm_args(p) ==
    CASE p.type = "Write" -> JArray(<<p.ids, p.values>>)
      [] p.type = "Search" -> JArray(<<JArray(p.domain)>>)
      [] p.type = "CheckFieldAccessRights" ->
            JArray(<<JString(p.operation),
                     JArray([i \in DOMAIN p.fields |-> JString(p.fields[i])])>>)
orm_kwargs(p) ==
    CASE p.type = "Search" ->
            JObject(<<"limit", "offset", "order">>,
                    <<JOption(p.limit, JNumber), JOption(p.offset, JNumber),
                      JOption(p.order, JString)>>)
      [] OTHER -> JObject(<<>>, <<>>)

\* Serialize for Execute nesting the caller's arguments in one list
Serialize_NestedArgs(p) ==
    CASE p.type = "Version" -> JObject(<<>>, <<>>)
      [] p.type = "DatabaseList" -> JArray(<<>>)
      [] p.type = "SessionAuthenticate" ->
            JObject(<<"db", "login", "password">>,
                    <<JString(p.db), JString(p.login), JString(p.password)>>)
      [] p.type = "Execute" ->
            JArray(<<JString(p.database), JNumber(p.uid), JString(p.password),
                     JString(p.model), JString(p.method), JArray(p.args)>>)
      [] OTHER ->
            JArray(<<JString(p.database), JNumber(p.uid), JString(p.password),
                     orm_args(p), orm_kwargs(p)>>)

\* Serialize for the request structs: derived (Version, SessionAuthenticate),
\* written by hand (Execute, DatabaseList) or generated by #[odoo_orm]
Serialize(p) ==
    CASE p.type = "Version" -> JObject(<<>>, <<>>)
      [] p.type = "DatabaseList" -> JArray(<<>>)
      [] p.type = "SessionAuthenticate" ->
            JObject(<<"db", "login", "password">>,
                    <<JString(p.db), JString(p.login), JString(p.password)>>)
      [] p.type = "Execute" ->
            JArray(<<JString(p.database), JNumber(p.uid), JString(p.password),
                     JString(p.model), JString(p.method)>> \o p.args)
      [] OTHER ->
            JArray(<<JString(p.database), JNumber(p.uid), JString(p.password),
                     orm_args(p), orm_kwargs(p)>>)

\* OdooApiMethod::describe: the service and the method of an "api" request
describe(p) ==
    CASE p.type = "Version" -> <<"common", "version">>
      [] p.type = "Execute" -> <<"object", "execute">>

\* JsonRpcParams::Container: the container of a request struct
Container(kind, inner) == [kind |-> kind, inner |-> inner]

\* the web container wrapping its payload as the api container does
SerializeContainer_WrapsWeb(c) ==
    CASE c.kind = "api" ->
            JObject(<<"args", "method", "service">>,
                    <<Serialize(c.inner), JString(describe(c.inner)[2]),
                      JString(describe(c.inner)[1])>>)
      [] c.kind = "orm" ->
            JObject(<<"args", "method", "service">>,
                    <<Serialize(c.inner), JString("execute_kw"), JString("object")>>)
      [] c.kind = "web" ->
            JObject(<<"args", "method", "service">>,
                    <<Serialize(c.inner), JString("call"), JString("web")>>)

\* Serialize for OdooApiContainer, OdooOrmContainer and (transparent)
\* OdooWebContainer
SerializeContainer(c) ==
    CASE c.kind = "api" ->
            JObject(<<"args", "method", "service">>,
                    <<Serialize(c.inner), JString(describe(c.inner)[2]),
                      JString(describe(c.inner)[1])>>)
      [] c.kind = "orm" ->
            JObject(<<"args", "method", "service">>,
                    <<Serialize(c.inner), JString("execute_kw"), JString("object")>>)
      [] c.kind = "web" -> Serialize(c.inner)

\* JsonRpcParams::build (OdooApiMethod::_build, OdooOrmMethod::_build,
\* OdooWebMethod::_build): the JsonRpcRequest
build(container, id) ==
    [jsonrpc |-> "2.0", method |-> "call", id |-> id, params |-> container]

\* to_value(&self.data) / .json(&self.data): the derived Serialize of
\* JsonRpcRequest, the id kept as the u32 it is
to_value(data) ==
    [jsonrpc |-> data.jsonrpc, method |-> data.method, id |-> data.id,
     params |-> SerializeContainer(data.params)]

\* OdooRequest::new
NoReq == [live |-> FALSE]
OdooRequest(endpoint, data, url, sid) ==
    [live |-> TRUE, endpoint |-> endpoint, data |-> data, url |-> url, session_id |-> sid]

\* build_request leaving the session id of the client out of the request
build_request_NoSession(c, o, endpoint, payload, url) ==
    OdooRequest(endpoint, build(Container(endpoint.kind, payload), o.id), url, None)

\* OdooClient::build_request, given the outcome of next_id
build_request(c, o, endpoint, payload, url) ==
    OdooRequest(endpoint, build(Container(endpoint.kind, payload), o.id), url,
                session_id(c))

\* self.build_endpoint(endpoint): the base URL joined with the endpoint's path
build_endpoint(c, path) == c.url \o path

\* a client method handing the endpoint's path alone to build_request
endpoint_url_PathOnly(c, endpoint) == endpoint.path

\* the URL a client method hands to build_request: url_jsonrpc for the methods
\* of the "api" family, build_endpoint(endpoint()) for the orm and web ones
endpoint_url(c, endpoint) ==
    IF endpoint.kind = "api" THEN c.url_jsonrpc ELSE build_endpoint(c, endpoint.path)

\* OdooClient::get_auth_request, given the outcome of next_id
get_auth_request(c, o, db, login, password) ==
    LET authenticate ==
            [type |-> "SessionAuthenticate", db |-> db, login |-> login,
             password |-> password]
        url_frag == SessionAuthenticate.path
    IN  build_request(c, o, SessionAuthenticate, authenticate, c.url \o url_frag)

(***************************************************************************)
(* The transport.  What the closure (or the HTTP exchange) gives back: a   *)
(* failure, or a body; the closure also returns a session id.              *)
(***************************************************************************)
WireBodies ==
    { Garbage } \cup
    { Body(TRUE, "2.0", J("int", 1), r, e) :
        r \in { Absent, JNull, Val("bool", 1), Obj(NoKey), Obj(J("int", 7)),
                Obj(J("bool", 0)), Obj(J("int64", 0)) },
        e \in { NoError, ErrVal(200, "Odoo Server Error", "d1") } }
        \cup
    { Body(TRUE, "2.0", J("int", 1000), Absent, ErrVal(404, "Odoo Session Expired", "d2")),
      Body(TRUE, "2.0", J("null", 0), Absent, ErrVal(200, "Odoo Server Error", "d1")),
      Body(TRUE, "2.0", J("int", 1), Absent, ErrVal(200, "Other", "partial")),
      Body(TRUE, "absent", J("int", 1), Obj(J("int", 7)), NoError) }

TransportFail == [fail |-> TRUE, body |-> Garbage, token |-> None]
TransportNone == [fail |-> FALSE, body |-> Garbage, token |-> None]
NoSent ==
    [url |-> <<>>,
     data |-> [jsonrpc |-> "", method |-> "", id |-> U32(0, 0), params |-> J("null", 0)],
     session |-> None]

\* what the transport of implementation i may give back
Returns(i) ==
    { TransportFail } \cup
    { [fail |-> FALSE, body |-> b, token |-> t] :
        b \in WireBodies, t \in IF IsClosure(i) THEN SessionIds ELSE {None} }

\* RequestImpl::Error
ImplError(i) == IF IsClosure(i) THEN "ClosureError" ELSE "ReqwestError"
AuthError(i) == IF IsClosure(i) THEN "ClosureAuthError" ELSE "ReqwestAuthError"

\* From<ParseResponseError> for ClosureError / ReqwestError
FromParseResponseError(i, e) == Err(ImplError(i), e.variant, "-", e.payload, "")

\* the wrapping of the implementation's error reporting every failure of
\* authenticate as a uid failure
FromImplError_AsUidParseError(i, e) ==
    Err(AuthError(i), "UidParseError", "-", NoPayload, UidParseMessage)

\* #[from] ClosureError in ClosureAuthError, #[from] ReqwestError in ReqwestAuthError
FromImplError(i, e) == Err(AuthError(i), e.ty, e.variant, e.payload, "")

\* From<AuthenticationError> for ClosureAuthError / ReqwestAuthError
FromAuthenticationError(i, e) ==
    IF e.variant = "SerdeJsonError"
    THEN Err(AuthError(i), ImplError(i), "SerdeJsonError", NoPayload, "")
    ELSE Err(AuthError(i), "UidParseError", "-", NoPayload, e.msg)

\* the conversion reporting a wrapped error under the name of its wrapper's variant
IntoError_Flatten(e) == Err("Error", e.variant, "-", e.payload, e.msg)

\* From<..> for the unified client::Error: ParseResponseError, AuthenticationError,
\* ClosureError and ReqwestError keep their variant; ClosureAuthError and
\* ReqwestAuthError unwrap the error they wrap (err.into()) or keep UidParseError
IntoError(e) ==
    CASE e.ty \in {"ClosureAuthError", "ReqwestAuthError"} ->
            IF e.variant = "UidParseError"
            THEN Err("Error", "UidParseError", "-", NoPayload, e.msg)
            ELSE Err("Error", e.inner, "-", e.payload, "")
      [] e.ty = "AuthenticationError" -> Err("Error", e.variant, "-", NoPayload, e.msg)
      [] OTHER -> Err("Error", e.variant, "-", e.payload, "")

\* What send_internal gives back: the result, the session id returned with it,
\* how many times the transport was invoked, and what it was invoked with.
Exchange(res, token, calls, sent) ==
    [res |-> res, token |-> token, calls |-> calls, sent |-> sent]

\* send_internal calling the closure a second time when the first call failed
send_internal_ClosureBlocking_Retry(r, t) ==
    LET sent == [url |-> r.url, data |-> to_value(r.data), session |-> r.session_id]
        parsed == parse_response(t.body, r.endpoint.rtype)
    IN  IF t.fail
        THEN Exchange(Fail(Err("ClosureError", "ClosureError", "-", NoPayload, "")),
                      None, 2, sent)
        ELSE IF ~parsed.ok
        THEN Exchange(Fail(Err("ClosureError", parsed.err.variant, "-",
                               parsed.err.payload, "")),
                      None, 1, sent)
        ELSE Exchange(Ok(parsed.value), t.token, 1, sent)

\* OdooRequest<T, ClosureBlocking>::send_internal: to_value(&self.data), one call
\* of the closure with (&self.url, data, self.session_id), then parse_response
send_internal_ClosureBlocking(r, t) ==
    LET data == to_value(r.data)
        sent == [url |-> r.url, data |-> data, session |-> r.session_id]
        parsed == parse_response(t.body, r.endpoint.rtype)
    IN  IF t.fail
        THEN Exchange(Fail(Err("ClosureError", "ClosureError", "-", NoPayload, "")),
                      None, 1, sent)
        ELSE IF ~parsed.ok
        THEN Exchange(Fail(Err("ClosureError", parsed.err.variant, "-",
                               parsed.err.payload, "")),
                      None, 1, sent)
        ELSE Exchange(Ok(parsed.value), t.token, 1, sent)

\* send_internal not handing the request's session id to the closure
send_internal_ClosureAsync_NoSession(r, t) ==
    LET sent == [url |-> r.url, data |-> to_value(r.data), session |-> None]
        parsed == parse_response(t.body, r.endpoint.rtype)
    IN  IF t.fail
        THEN Exchange(Fail(Err("ClosureError", "ClosureError", "-", NoPayload, "")),
                      None, 1, sent)
        ELSE IF ~parsed.ok
        THEN Exchange(Fail(Err("ClosureError", parsed.err.variant, "-",
                               parsed.err.payload, "")),
                      None, 1, sent)
        ELSE Exchange(Ok(parsed.value), t.token, 1, sent)

\* OdooRequest<T, ClosureAsync>::send_internal: to_value(&self.data), one call of
\* the closure with (self.url.clone(), data, self.session_id.map(to_string)),
\* awaited, then parse_response
send_internal_ClosureAsync(r, t) ==
    LET data == to_value(r.data)
        url == r.url
        session == IF r.session_id = None THEN None ELSE Some(r.session_id[1])
        sent == [url |-> url, data |-> data, session |-> session]
    IN  IF t.fail
        THEN Exchange(Fail(Err("ClosureError", "ClosureError", "-", NoPayload, "")),
                      None, 1, sent)
        ELSE LET parsed == parse_response(t.body, r.endpoint.rtype) IN
             IF parsed.ok
             THEN Exchange(Ok(parsed.value), t.token, 1, sent)
             ELSE Exchange(Fail(FromParseResponseError("ClosureAsync", parsed.err)),
                           None, 1, sent)

\* OdooRequest<T, ReqwestBlocking>::send_internal and <T, ReqwestAsync>: one
\* post(&self.url).json(&self.data).send(), then parse_response on the text; the
\* request's session id is not handed over, and None is returned as session id
send_internal_Reqwest(r, t) ==
    LET sent == [url |-> r.url, data |-> to_value(r.data), session |-> None]
        parsed == parse_response(t.body, r.endpoint.rtype)
    IN  IF t.fail
        THEN Exchange(Fail(Err("ReqwestError", "ReqwestError", "-", NoPayload, "")),
                      None, 1, sent)
        ELSE IF ~parsed.ok
        THEN Exchange(Fail(FromParseResponseError("ReqwestBlocking", parsed.err)),
                      None, 1, sent)
        ELSE Exchange(Ok(parsed.value), None, 1, sent)

\* OdooRequest::send_internal of the implementation the client was built with
send_internal(r, t, i) ==
    CASE i = "ClosureBlocking" -> send_internal_ClosureBlocking(r, t)
      [] i = "ClosureAsync" -> send_internal_ClosureAsync(r, t)
      [] OTHER -> send_internal_Reqwest(r, t)

\* the id of a request as the JSON number a body carries
IdJson(id) ==
    IF id[1] < Half \div 2
    THEN J("int", id[1] * Half + id[2])
    ELSE J("int64", (id[1] - Half \div 2) * Half + id[2])

\* a transport that echoes: the body it returns is a success envelope with the
\* request's id, whose result is the payload it was sent
Echo(r) ==
    [fail |-> FALSE,
     body |-> Body(TRUE, "2.0", IdJson(r.data.id), Serialize(r.data.params.inner), NoError),
     token |-> None]

\* Value::get("uid") with a default: a result without the member gives uid 0
ValueGet_DefaultZero(v) ==
    IF v.k = "obj" /\ v.uid.k # "absent" THEN Some(v.uid) ELSE Some(J("int", 0))

\* serde_json::Value::get("uid")
ValueGet(v) == IF v.k = "obj" /\ v.uid.k # "absent" THEN Some(v.uid) ELSE None

\* serde_json::to_string of a scalar: its JSON text.  A number's text is
\* <<"number", h, n, fraction>>: the digits of h * 2^31 + n, then the fraction
to_string(j) ==
    CASE j.k = "null"  -> <<"null">>
      [] j.k = "bool"  -> IF j.n = 1 THEN <<"true">> ELSE <<"false">>
      [] j.k = "int"   -> <<"number", 0, j.n, "">>
      [] j.k = "int64" -> <<"number", 1, j.n, "">>
      [] j.k = "float" -> <<"number", 0, j.n, ".0">>
      [] OTHER         -> <<"string", j.n>>

\* serde_json::from_str::<OdooId>: a number without a fraction that fits an i32
from_str_OdooId(text) ==
    IF text[1] = "number" /\ text[4] = "" /\ text[2] = 0
    THEN Some(text[3]) ELSE None

\* parse_auth_response not storing the session id it is given
parse_auth_response_NoSession(c, db, login, password, response, sid) ==
    LET got == ValueGet(response) IN
    IF got = None
    THEN [ok |-> FALSE, client |-> Gone,
          err |-> Err("AuthenticationError", "UidParseError", "-", NoPayload,
                      UidParseMessage)]
    ELSE LET uid == from_str_OdooId(to_string(got[1])) IN
         IF uid = None
         THEN [ok |-> FALSE, client |-> Gone,
               err |-> Err("AuthenticationError", "SerdeJsonError", "-", NoPayload, "")]
         ELSE [ok |-> TRUE,
               client |-> [alive |-> TRUE, url |-> c.url, url_jsonrpc |-> c.url_jsonrpc,
                           auth |-> Authed(db, login, uid[1], password, None),
                           id |-> c.id],
               err |-> NoErr]

\* OdooClient::parse_auth_response
parse_auth_response(c, db, login, password, response, sid) ==
    LET got == ValueGet(response) IN
    IF got = None
    THEN [ok |-> FALSE, client |-> Gone,
          err |-> Err("AuthenticationError", "UidParseError", "-", NoPayload,
                      UidParseMessage)]
    ELSE LET uid == from_str_OdooId(to_string(got[1])) IN
         IF uid = None
         THEN [ok |-> FALSE, client |-> Gone,
               err |-> Err("AuthenticationError", "SerdeJsonError", "-", NoPayload, "")]
         ELSE [ok |-> TRUE,
               client |-> [alive |-> TRUE, url |-> c.url, url_jsonrpc |-> c.url_jsonrpc,
                           auth |-> Authed(db, login, uid[1], password, sid),
                           id |-> c.id],
               err |-> NoErr]

\* authenticate_manual keeping the session id of an authenticated client when it
\* is given none
authenticate_manual_KeepsSession(c, db, login, uid, password, sid) ==
    [alive |-> TRUE, url |-> c.url, url_jsonrpc |-> c.url_jsonrpc,
     auth |-> Authed(db, login, uid, password,
                     IF sid = None THEN get_session_id(c.auth) ELSE sid),
     id |-> c.id]

\* authenticate_manual validating the uid: a uid that is no id of a record
\* (ids start at 1) is refused and the client is left as it was
authenticate_manual_ValidatesUid(c, db, login, uid, password, sid) ==
    IF uid <= 0
    THEN c
    ELSE [alive |-> TRUE, url |-> c.url, url_jsonrpc |-> c.url_jsonrpc,
          auth |-> Authed(db, login, uid, password, sid), id |-> c.id]

\* authenticate_manual starting the id counter anew
authenticate_manual_ResetsId(c, db, login, uid, password, sid) ==
    [alive |-> TRUE, url |-> c.url, url_jsonrpc |-> c.url_jsonrpc,
     auth |-> Authed(db, login, uid, password, sid), id |-> FirstId]

\* OdooClient::authenticate_manual
authenticate_manual(c, db, login, uid, password, sid) ==
    [alive |-> TRUE, url |-> c.url, url_jsonrpc |-> c.url_jsonrpc,
     auth |-> Authed(db, login, uid, password, sid), id |-> c.id]

\* OdooClient::with_url
with_url(c, url) ==
    LET u == build_urls(url) IN
    [c EXCEPT !.url = u.url, !.url_jsonrpc = u.url_jsonrpc]

\* OdooClient::authenticate of the four implementations, given the outcome o of
\* next_id and what the transport gives back: the client it returns (Gone: an
\* error was returned and self was dropped) and the outcome
authenticate(c, o, db, login, password, t, i) ==
    LET request == get_auth_request(c, o, db, login, password)
        s == send_internal(request, t, i)
        p == parse_auth_response(o.after, db, login, password, s.res.value, s.token)
    IN  IF ~s.res.ok
        THEN [client |-> Gone, res |-> Fail(FromImplError(i, s.res.err)), io |-> s]
        ELSE IF ~p.ok
        THEN [client |-> Gone, res |-> Fail(FromAuthenticationError(i, p.err)), io |-> s]
        ELSE [client |-> p.client, res |-> Ok(s.res.value), io |-> s]

(***************************************************************************)
(* The outcome of an operation, as the history variable last records it.   *)
(***************************************************************************)
\* before: the auth state of the client the operation was applied to ("-": none)
Outcome(op, args, before, status, value, err, t, calls, sent) ==
    [op |-> op, args |-> args, before |-> before, status |-> status, value |-> value,
     err |-> err, transport |-> t, calls |-> calls, sent |-> sent]
Quiet(op, args, before) ==
    Outcome(op, args, before, "Ok", Absent, NoErr, TransportNone, 0, NoSent)
Panicked(op, args, before) ==
    Outcome(op, args, before, "panic", Absent, NoErr, TransportNone, 0, NoSent)
NoArgs == [none |-> TRUE]
NoOrigin == [by |-> "-", token |-> None]
NoInput == [body |-> Garbage, rtype |-> "Value"]
NoOutput == [fn |-> "-"]

\* the callers sharing a client, none of them at work
Callers == {"a", "b", "c"}
NoCaller == [pc |-> "idle", id |-> U32(0, 0), url |-> <<>>]
NoCallers == [who \in Callers |-> NoCaller]

(***************************************************************************)
(* The operations.                                                         *)
(***************************************************************************)
Idle == client.alive /\ ~req.live
MayBuild == Idle /\ Len(ids) < MaxRequests

\* OdooClient::new_closure_blocking, new_closure_async, new_reqwest_blocking,
\* new_reqwest_async: the caller, holding no client, constructs one
New(url, i) ==
    /\ ~client.alive
    /\ last.status # "panic"
    /\ client' = new(url)
    /\ impl' = i
    /\ req' = NoReq
    /\ ids' = <<>>
    /\ last' = Quiet("new", [url |-> url], "-")
    /\ origin' = NoOrigin
    /\ UNCHANGED <<din, dout, callers>>

\* client.with_url(url)
WithUrl(url) ==
    /\ Idle
    /\ client' = with_url(client, url)
    /\ last' = Quiet("with_url", [url |-> url], client.auth.state)
    /\ UNCHANGED <<impl, req, ids, origin, din, dout, callers>>

\* client.authenticate_manual(db, login, uid, password, session_id)
AuthenticateManual(db, login, uid, password, sid) ==
    /\ Idle
    /\ client' = authenticate_manual(client, db, login, uid, password, sid)
    /\ last' = Quiet("authenticate_manual",
                     [db |-> db, login |-> login, uid |-> uid, password |-> password,
                      session_id |-> sid], client.auth.state)
    /\ origin' = [by |-> "authenticate_manual", token |-> sid]
    /\ UNCHANGED <<impl, req, ids, din, dout, callers>>

\* client.authenticate(db, login, password): the login request is built and
\* sent, the response parsed, and self is replaced by what is returned
Authenticate(db, login, password, t) ==
    /\ MayBuild
    /\ \E o \in next_id(client) :
         LET args == [db |-> db, login |-> login, password |-> password] IN
         IF o.panicked
         THEN /\ client' = Gone
              /\ ids' = ids
              /\ last' = Panicked("authenticate", args, client.auth.state)
              /\ origin' = NoOrigin
         ELSE \E a \in {authenticate(client, o, db, login, password, t, impl)} :
              /\ client' = a.client
              /\ ids' = Append(ids, o.id)
              /\ last' = Outcome("authenticate", args, client.auth.state,
                                 IF a.res.ok THEN "Ok" ELSE "Err",
                                 a.res.value, a.res.err, t, a.io.calls, a.io.sent)
              /\ origin' = IF a.res.ok
                          THEN [by |-> "authenticate", token |-> a.io.token]
                          ELSE NoOrigin
    /\ UNCHANGED <<impl, req, din, dout, callers>>

\* a client method (client.execute(..), client.write(..), ...): the request is
\* built and borrows the client
Build(endpoint, a) ==
    /\ MayBuild
    /\ endpoint.auth => client.auth.state = "Authed"
    /\ \E o \in next_id(client) :
         IF o.panicked
         THEN /\ client' = Gone
              /\ req' = req
              /\ ids' = ids
              /\ last' = Panicked("build", [endpoint |-> endpoint.name], client.auth.state)
         ELSE /\ client' = o.after
              /\ req' = build_request(client, o, endpoint, payload_of(client, endpoint, a),
                                      endpoint_url(client, endpoint))
              /\ ids' = Append(ids, o.id)
              /\ last' = Quiet("build", [endpoint |-> endpoint.name], client.auth.state)
    /\ UNCHANGED <<impl, origin, din, dout, callers>>

\* send storing the session id the transport returned in the client
Send_StoresToken(t) ==
    /\ req.live
    /\ \E s \in {send_internal(req, t, impl)} :
         /\ last' = Outcome("send",
                            [endpoint |-> req.endpoint.name, kind |-> req.endpoint.kind,
                             rtype |-> req.endpoint.rtype],
                            client.auth.state,
                            IF s.res.ok THEN "Ok" ELSE "Err",
                            s.res.value, s.res.err, t, s.calls, s.sent)
         /\ client' = IF client.auth.state = "Authed" /\ s.token # None
                      THEN [client EXCEPT !.auth.session_id = s.token]
                      ELSE client
    /\ req' = NoReq
    /\ UNCHANGED <<impl, ids, origin, din, dout, callers>>

\* request.send(): the first component of send_internal's result
Send(t) ==
    /\ req.live
    /\ \E s \in {send_internal(req, t, impl)} :
         last' = Outcome("send",
                         [endpoint |-> req.endpoint.name, kind |-> req.endpoint.kind,
                          rtype |-> req.endpoint.rtype],
                         client.auth.state,
                         IF s.res.ok THEN "Ok" ELSE "Err",
                         s.res.value, s.res.err, t, s.calls, s.sent)
    /\ req' = NoReq
    /\ UNCHANGED <<client, impl, ids, origin, din, dout, callers>>

\* request.send() against a transport that echoes the payload
SendEcho ==
    /\ req.live
    /\ Send(Echo(req))

\* the request is dropped unsent
DropRequest ==
    /\ req.live
    /\ req' = NoReq
    /\ last' = Quiet("drop", [endpoint |-> req.endpoint.name], client.auth.state)
    /\ UNCHANGED <<client, impl, ids, origin, din, dout, callers>>

Init ==
    /\ \E url \in Urls : client = new(url)
    /\ impl \in Impls
    /\ req = NoReq
    /\ ids = <<>>
    /\ origin = NoOrigin
    /\ \E url \in Urls : client = new(url) /\ last = Quiet("new", [url |-> url], "-")
    /\ din = NoInput
    /\ dout = NoOutput
    /\ callers = NoCallers

Next ==
    \/ \E url \in Urls, i \in Impls : New(url, i)
    \/ \E url \in Urls : WithUrl(url)
    \/ \E db \in Databases, login \in Logins, uid \in OdooIds, password \in Passwords,
          sid \in SessionIds : AuthenticateManual(db, login, uid, password, sid)
    \/ \E db \in Databases, login \in Logins, password \in Passwords :
          \E t \in Returns(impl) : Authenticate(db, login, password, t)
    \/ \E endpoint \in Endpoints : \E a \in CallerArgs(endpoint) : Build(endpoint, a)
    \/ \E t \in Returns(impl) : Send(t)
    \/ SendEcho
    \/ DropRequest

Spec == Init /\ [][Next]_vars

(***************************************************************************)
(* A client that has been in use for long: its counter stands two below    *)
(* the largest u32 (2^32 - 3 requests were built before the behaviour      *)
(* begins; ids records those built from here on).                          *)
(***************************************************************************)
InitLongLived ==
    /\ \E url \in Urls :
         /\ client = [new(url) EXCEPT !.id = U32(Half - 1, Half - 2)]
         /\ last = Quiet("new", [url |-> url], "-")
    /\ impl \in Impls
    /\ req = NoReq
    /\ ids = <<>>
    /\ origin = NoOrigin
    /\ din = NoInput
    /\ dout = NoOutput
    /\ callers = NoCallers

SpecLongLived == InitLongLived /\ [][Next]_vars

(***************************************************************************)
(* The client under URLs of every form: none, one or two trailing "/", and *)
(* the empty text; the endpoints are one of each container kind.           *)
(***************************************************************************)
UrlsWide == Urls \cup { <<"h", "/", "/">>, <<>> }

InitUrls ==
    /\ \E url \in UrlsWide : client = new(url) /\ last = Quiet("new", [url |-> url], "-")
    /\ impl \in Impls
    /\ req = NoReq
    /\ ids = <<>>
    /\ origin = NoOrigin
    /\ din = NoInput
    /\ dout = NoOutput
    /\ callers = NoCallers

NextUrls ==
    \/ \E url \in UrlsWide, i \in Impls : New(url, i)
    \/ \E url \in UrlsWide : WithUrl(url)
    \/ \E sid \in SessionIds : AuthenticateManual("db1", "admin", 2, "secret", sid)
    \/ \E t \in Returns(impl) : Authenticate("db1", "admin", "secret", t)
    \/ \E endpoint \in {Version, Search, DatabaseList} :
          \E a \in CallerArgs(endpoint) : Build(endpoint, a)
    \/ Send(TransportFail)
    \/ SendEcho
    \/ DropRequest

SpecUrls == InitUrls /\ [][NextUrls]_vars

(***************************************************************************)
(* One client shared by several callers (threads or tasks).  A caller      *)
(* builds a request in the steps of build_request: it takes the exclusive  *)
(* borrow of the client (&'a mut self), next_id reads the counter, next_id *)
(* writes the counter, OdooRequest::new constructs the request, which      *)
(* keeps the borrow for its lifetime 'a; send or drop ends it.  The steps  *)
(* of different callers interleave wherever their guards allow.            *)
(***************************************************************************)
\* build_request taking &self: any number of callers may be inside it
MayBorrowMut_Shared(cs, who) == TRUE

\* build_request(&'a mut self, ..): the borrow checker admits the call only
\* where no other borrow of the client is live, and the OdooRequest returned
\* keeps the borrow while it lives
MayBorrowMut(cs, who) == \A other \in Callers \ {who} : cs[other].pc = "idle"

\* the caller enters build_request
Borrow(who) ==
    /\ callers[who].pc = "idle"
    /\ Len(ids) < MaxRequests
    /\ MayBorrowMut(callers, who)
    /\ callers' = [callers EXCEPT ![who].pc = "borrowed"]
    /\ UNCHANGED <<client, impl, req, ids, last, origin, din, dout>>

\* next_id: let id = self.id
ReadId(who) ==
    /\ callers[who].pc = "borrowed"
    /\ \E o \in next_id(client) :
         /\ ~o.panicked
         /\ callers' = [callers EXCEPT ![who].pc = "read", ![who].id = o.id]
    /\ UNCHANGED <<client, impl, req, ids, last, origin, din, dout>>

\* next_id: self.id += 1
WriteId(who) ==
    /\ callers[who].pc = "read"
    /\ \E o \in next_id(client) :
         /\ ~o.panicked
         /\ client' = o.after
    /\ callers' = [callers EXCEPT ![who].pc = "written"]
    /\ UNCHANGED <<impl, req, ids, last, origin, din, dout>>

\* OdooRequest::new: the request is constructed with the id next_id returned
Construct(who, endpoint) ==
    /\ callers[who].pc = "written"
    /\ \E r \in {build_request(client,
                               [panicked |-> FALSE, id |-> callers[who].id, after |-> client],
                               endpoint, payload_of(client, endpoint, NoArgs),
                               endpoint_url(client, endpoint))} :
         /\ callers' = [callers EXCEPT ![who].pc = "holding", ![who].id = r.data.id,
                                       ![who].url = r.url]
         /\ ids' = Append(ids, r.data.id)
    /\ UNCHANGED <<client, impl, req, last, origin, din, dout>>

\* the request is sent or dropped: the borrow ends
Release(who) ==
    /\ callers[who].pc = "holding"
    /\ callers' = [callers EXCEPT ![who] = NoCaller]
    /\ UNCHANGED <<client, impl, req, ids, last, origin, din, dout>>

InitShared ==
    /\ \E url \in Urls : client = new(url) /\ last = Quiet("new", [url |-> url], "-")
    /\ impl \in Impls
    /\ req = NoReq
    /\ ids = <<>>
    /\ origin = NoOrigin
    /\ din = NoInput
    /\ dout = NoOutput
    /\ callers = NoCallers

NextShared ==
    \E who \in Callers :
       \/ Borrow(who)
       \/ ReadId(who)
       \/ WriteId(who)
       \/ \E endpoint \in {Version, DatabaseList} : Construct(who, endpoint)
       \/ Release(who)

SpecShared == InitShared /\ [][NextShared]_vars

(***************************************************************************)
(* The decoder on its own: a body and a response type are drawn, and the   *)
(* decoding functions applied to them.                                     *)
(***************************************************************************)
\* the match on the remote error's message in the generated call_async and
\* call_blocking functions: the variant of jsonrpc::Error returned
classify(e) ==
    IF e.message = "Odoo Server Error" THEN "OdooServerError"
    ELSE IF e.message = "404: Not Found" THEN "OdooNotFoundError"
    ELSE IF e.message = "404: Not Found" THEN "OdooSessionExpiredError"
    ELSE "OdooError"

\* the generated <method>_blocking / <method>_async function, from the body on:
\* .json() decodes it (a failure is a reqwest::Error), then the match
call(b, D) ==
    LET response == JsonRpcResponse(b, D) IN
    CASE response.variant = "Success" -> Ok(response.result)
      [] response.variant = "Error" ->
            Fail(Err("Error", classify(response.error), "-", response.error, ""))
      [] OTHER -> Fail(Err("Error", "ReqwestError", "-", NoPayload, ""))

Inputs == [body : AllBodies, rtype : ResponseTypes]

InitDecode ==
    /\ client = Gone
    /\ impl = "ClosureBlocking"
    /\ req = NoReq
    /\ ids = <<>>
    /\ origin = NoOrigin
    /\ last = Quiet("-", NoArgs, "-")
    /\ din \in Inputs
    /\ dout = NoOutput
    /\ callers = NoCallers

\* request.parse_response(body)
ParseResponse ==
    /\ dout.fn # "parse_response"
    /\ dout' = [fn |-> "parse_response", res |-> parse_response(din.body, din.rtype)]
    /\ UNCHANGED <<client, impl, req, ids, last, origin, din, callers>>

\* <method>_blocking(..) / <method>_async(..) receiving the body
Call ==
    /\ dout.fn # "call"
    /\ dout' = [fn |-> "call", res |-> call(din.body, din.rtype)]
    /\ UNCHANGED <<client, impl, req, ids, last, origin, din, callers>>

NextDecode == ParseResponse \/ Call

SpecDecode == InitDecode /\ [][NextDecode]_vars

(***************************************************************************)
(* Properties.                                                             *)
(***************************************************************************)
\* a body as the wire format has it: valid JSON, "jsonrpc": "2.0", "id" a u32
EnvelopeOk(b) ==
    b.valid /\ b.jsonrpc = "2.0" /\ ((b.id.k = "int" /\ b.id.n >= 0) \/ b.id.k = "int64")
HasResult(b) == b.valid /\ b.result.k # "absent"
HasError(b) == b.valid /\ b.error.present
\* the "error" member has the shape of the wire format's error object
ErrorShaped(e) == e.present /\ e.code >= 0 /\ e.data # "partial"
\* the value is one the response type is meant to hold
OfType(v, D) ==
    CASE D = "Value"   -> v.k # "absent"
      [] D = "Bool"    -> v.k = "bool"
      [] D = "List"    -> IsArrayOf(v, "str")
      [] D = "OptList" -> v.k = "null" \/ IsArrayOf(v, "str")
      [] D = "IdList"  -> IsArrayOf(v, "int")
      [] D = "Version" -> v.k = "version"
AuthRan == last.op = "authenticate" /\ last.status # "panic"

\* C1: the ids stamped on the requests built from a freshly created client are
\* 1, 2, ..., N in the order the requests were built, whichever operation built
\* them: the k-th id recorded is k, and the envelope of the request built last
\* (the live request, or the login request authenticate sent) carries the N-th.
C1_SequentialIds ==
    /\ \A k \in 1 .. Len(ids) : ids[k] = U32(0, k)
    /\ req.live => req.data.id = U32(0, Len(ids))
    /\ AuthRan => last.sent.data.id = U32(0, Len(ids))

C1_Witness ==
    /\ Len(ids) = 3
    /\ req.live /\ req.endpoint.kind = "orm"
    /\ ids[1] = U32(0, 1) /\ req.data.id = U32(0, 3)

\* C2: the ids issued by one client are strictly increasing (and so pairwise
\* distinct) over its whole lifetime, whatever the number of next_id calls on
\* the u32 counter: of any two ids recorded, the earlier is the smaller.
C2_IdsStrictlyIncreasing ==
    \A i, j \in 1 .. Len(ids) : i < j => U32Less(ids[i], ids[j])

\* C3: parse_response discriminates by shape.  Stated for the bodies the wire
\* format describes (an envelope with "jsonrpc": "2.0" and a u32 id, whose
\* result, if present, is of the response type and whose error, if present, is
\* an error object): with a result member the outcome is the success value;
\* with an error member instead it is the failure carrying the remote error;
\* with neither it is a response-parse error.
C3_ShapeDiscrimination ==
    (/\ dout.fn = "parse_response"
     /\ EnvelopeOk(din.body)
     /\ HasResult(din.body) => OfType(din.body.result, din.rtype)
     /\ HasError(din.body) => ErrorShaped(din.body.error))
    =>
    /\ HasResult(din.body) => dout.res.ok /\ dout.res.value = din.body.result
    /\ (~HasResult(din.body) /\ HasError(din.body)) =>
            /\ ~dout.res.ok
            /\ dout.res.err.variant = "JsonRpcError"
            /\ dout.res.err.payload.message = din.body.error.message
    /\ (~HasResult(din.body) /\ ~HasError(din.body)) =>
            ~dout.res.ok /\ dout.res.err.variant = "SerdeJsonError"

\* C4: a remote error is classified by exact match on its message: "Odoo Server
\* Error" is the server error, "404: Not Found" the not-found error, "Odoo
\* Session Expired" the session-expired error, any other string the generic
\* API error.
C4_ExactClassification ==
    (/\ dout.fn = "call"
     /\ JsonRpcResponse(din.body, din.rtype).variant = "Error")
    =>
    /\ ~dout.res.ok
    /\ dout.res.err.payload = Payload(din.body.error)
    /\ dout.res.err.variant =
         CASE din.body.error.message = "Odoo Server Error" -> "OdooServerError"
           [] din.body.error.message = "404: Not Found" -> "OdooNotFoundError"
           [] din.body.error.message = "Odoo Session Expired" -> "OdooSessionExpiredError"
           [] OTHER -> "OdooError"

\* C5: whenever the transport returns a well-formed error envelope (jsonrpc,
\* id, an error object and no result), send returns Err, and the error carries
\* the remote error's code, message and data as received, for every transport
\* implementation.
C5_ErrorEnvelopeIsErr ==
    (/\ last.op = "send"
     /\ ~last.transport.fail
     /\ EnvelopeOk(last.transport.body)
     /\ ~HasResult(last.transport.body)
     /\ ErrorShaped(last.transport.body.error))
    =>
    /\ last.status = "Err"
    /\ last.err.variant = "JsonRpcError"
    /\ last.err.payload.code = last.transport.body.error.code
    /\ last.err.payload.message = last.transport.body.error.message
    /\ last.err.payload.data = last.transport.body.error.data

\* C6: authenticate(db, login, password), when the transport returns a success
\* envelope whose result holds "uid": u (u an Odoo id) and the session token t,
\* yields an authenticated client holding db, login, password, u and t.
C6_AuthenticateSuccess ==
    (/\ AuthRan
     /\ ~last.transport.fail
     /\ EnvelopeOk(last.transport.body)
     /\ last.transport.body.result.k = "obj"
     /\ last.transport.body.result.uid.k = "int")
    =>
    /\ last.status = "Ok"
    /\ client.alive
    /\ client.auth = [state |-> "Authed",
                      database |-> last.args.db,
                      login |-> last.args.login,
                      uid |-> last.transport.body.result.uid.n,
                      password |-> last.args.password,
                      session_id |-> last.transport.token]

C6_Witness ==
    /\ AuthRan /\ last.status = "Ok"
    /\ last.transport.body.result.uid = J("int", 7)
    /\ last.transport.token = Some("s1")
    /\ client.alive /\ client.auth.state = "Authed"
    /\ client.auth.uid = 7 /\ client.auth.session_id = Some("s1")
    /\ client.auth.database = "db2"

\* C7: when the login response is a success envelope whose result has no uid
\* member, authenticate returns the UidParseError error and no client: no
\* authenticated client is produced, with a default uid or any other.
C7_MissingUid ==
    (/\ AuthRan
     /\ ~last.transport.fail
     /\ EnvelopeOk(last.transport.body)
     /\ HasResult(last.transport.body)
     /\ last.transport.body.result.uid.k = "absent")
    =>
    /\ last.status = "Err"
    /\ last.err.ty = (IF IsClosure(impl) THEN "ClosureAuthError" ELSE "ReqwestAuthError")
    /\ last.err.variant = "UidParseError"
    /\ last.err.msg = UidParseMessage
    /\ IntoError(last.err).variant = "UidParseError"
    /\ ~client.alive

C7_Witness ==
    /\ AuthRan
    /\ last.transport.body.result = Obj(NoKey)
    /\ last.transport.body.error = NoError
    /\ last.status = "Err" /\ last.err.variant = "UidParseError"
    /\ ~client.alive

\* C8: every failure of the uid extraction of authenticate is UidParseError:
\* when the login exchange gave a success envelope and no integer uid can be
\* had from its result (the member absent, or holding a non-integer such as
\* false, null or a string), the error is UidParseError and no other.
C8_UidFailureIsUidParseError ==
    (/\ AuthRan
     /\ ~last.transport.fail
     /\ EnvelopeOk(last.transport.body)
     /\ HasResult(last.transport.body)
     /\ last.transport.body.result.uid.k # "int")
    =>
    /\ last.status = "Err"
    /\ last.err.variant = "UidParseError"

\* C9: when the transport fails while the login request is sent, authenticate
\* returns the transport's own error (the closure's or reqwest's), not
\* UidParseError, and no client.
C9_TransportFailure ==
    (AuthRan /\ last.transport.fail)
    =>
    /\ last.status = "Err"
    /\ last.err.ty = (IF IsClosure(impl) THEN "ClosureAuthError" ELSE "ReqwestAuthError")
    /\ last.err.variant = (IF IsClosure(impl) THEN "ClosureError" ELSE "ReqwestError")
    /\ last.err.inner = (IF IsClosure(impl) THEN "ClosureError" ELSE "ReqwestError")
    /\ IntoError(last.err).variant =
          (IF IsClosure(impl) THEN "ClosureError" ELSE "ReqwestError")
    /\ ~client.alive

C9_Witness ==
    /\ AuthRan /\ last.transport.fail
    /\ last.before = "Authed"
    /\ last.status = "Err" /\ last.err.inner = "ReqwestError"
    /\ ~client.alive

\* C10: authentication is never removed.  A step from a state whose client is
\* authenticated leaves an authenticated client or (authenticate having
\* returned an error and consumed it) none; and authenticating again gives an
\* auth state made of the new arguments and the new response alone: the
\* database, login, password, uid and session id of the call, nothing of the
\* old state.
C10_AuthenticationNeverRemoved ==
    [][ (client.alive /\ client.auth.state = "Authed") =>
          /\ client'.alive => client'.auth.state = "Authed"
          /\ (last'.op = "authenticate" /\ last'.status = "Ok") =>
                client'.auth = [state |-> "Authed",
                                database |-> last'.args.db,
                                login |-> last'.args.login,
                                uid |-> last'.transport.body.result.uid.n,
                                password |-> last'.args.password,
                                session_id |-> last'.transport.token]
          /\ last'.op = "authenticate_manual" =>
                client'.auth = [state |-> "Authed",
                                database |-> last'.args.db,
                                login |-> last'.args.login,
                                uid |-> last'.args.uid,
                                password |-> last'.args.password,
                                session_id |-> last'.args.session_id]
      ]_vars

C10_Witness ==
    /\ last.op = "authenticate_manual"
    /\ last.before = "Authed"
    /\ last.args.session_id = None
    /\ client.alive /\ client.auth.state = "Authed" /\ client.auth.session_id = None
    /\ Len(ids) >= 1

\* C11: authenticate_manual(db, login, uid, password, session_id) never invokes
\* the transport and validates nothing: whatever the five arguments (a uid of 0
\* included), it leaves an authenticated client holding exactly those five
\* values, and nothing was sent.
C11_AuthenticateManual ==
    last.op = "authenticate_manual" =>
        /\ last.calls = 0
        /\ last.sent.url = <<>>
        /\ last.status = "Ok"
        /\ client.alive
        /\ client.auth = [state |-> "Authed",
                          database |-> last.args.db,
                          login |-> last.args.login,
                          uid |-> last.args.uid,
                          password |-> last.args.password,
                          session_id |-> last.args.session_id]

C11_Witness ==
    /\ last.op = "authenticate_manual"
    /\ last.before = "NotAuthed"
    /\ last.args.uid = 0 /\ last.args.session_id = Some("s1")
    /\ client.alive /\ client.auth.state = "Authed" /\ client.auth.uid = 0
    /\ client.auth.session_id = Some("s1")

\* C12: each send invokes the transport exactly once, whether the transport
\* succeeds, fails or returns bytes that do not decode; send then returns, and
\* the request, consumed by send, cannot be sent again.
C12_SendInvokesTransportOnce ==
    last.op = "send" =>
        /\ last.calls = 1
        /\ last.sent.url # <<>>
        /\ ~req.live

C12_Witness ==
    /\ last.op = "send"
    /\ last.transport.fail
    /\ impl = "ClosureBlocking"
    /\ last.status = "Err" /\ last.err.variant = "ClosureError"
    /\ last.calls = 1

\* C13: the choice between the blocking and the async closure transport alters
\* neither framing nor decoding: for the same request (a request built by a
\* client method, or the login request of authenticate) they hand the same URL,
\* the same serialized envelope and the same session id to the closure, and for
\* the same thing returned by the closure (bytes and session id, or a failure)
\* they give the same result, the same session id and the same error.
C13_ClosureTransportsAgree ==
    /\ req.live =>
          \A t \in Returns("ClosureBlocking") \cup {Echo(req)} :
             send_internal_ClosureBlocking(req, t) = send_internal_ClosureAsync(req, t)
    /\ (client.alive /\ ~req.live) =>
          \A o \in next_id(client), t \in Returns("ClosureAsync") :
             ~o.panicked =>
                LET r == get_auth_request(client, o, "db1", "admin", "secret") IN
                send_internal_ClosureBlocking(r, t) = send_internal_ClosureAsync(r, t)

C13_Witness ==
    /\ req.live
    /\ req.session_id = Some("s1")
    /\ req.endpoint.name = "execute"
    /\ \E t \in Returns("ClosureAsync") :
          /\ send_internal_ClosureAsync(req, t).res.ok
          /\ send_internal_ClosureAsync(req, t).token = Some("s1")
          /\ send_internal_ClosureBlocking(req, t).sent.session = Some("s1")
    /\ \E t \in Returns("ClosureAsync") :
          send_internal_ClosureBlocking(req, t).res.err.variant = "JsonRpcError"

\* C14: the request built for service "common", method "version" (the Version
\* payload, which has no fields) serializes with params equal to exactly
\* {"service": "common", "method": "version", "args": []}, the outer method
\* equal to "call" and the outer id equal to the id allocated for the call.
C14_VersionParams ==
    (req.live /\ req.endpoint.name = "common_version") =>
        /\ to_value(req.data).params =
              [k |-> "map", keys |-> <<"args", "method", "service">>,
               vals |-> << [k |-> "list", items |-> <<>>],
                           [k |-> "str", s |-> "version"],
                           [k |-> "str", s |-> "common"] >>]
        /\ to_value(req.data).method = "call"
        /\ to_value(req.data).id = ids[Len(ids)]

\* C15: every ORM request serializes params as service "object", method
\* "execute_kw" and args equal to the 7-element list [database, uid, password,
\* model, ORM method name, list of the declared positional arguments in
\* declared order, object of the declared keyword arguments], an absent
\* optional keyword argument being emitted as null.
C15_OrmParams ==
    (req.live /\ req.endpoint.kind = "orm") =>
        LET p == req.data.params.inner
            v == to_value(req.data).params
        IN  /\ v.k = "map"
            /\ v.keys = <<"args", "method", "service">>
            /\ v.vals[2] = [k |-> "str", s |-> "execute_kw"]
            /\ v.vals[3] = [k |-> "str", s |-> "object"]
            /\ v.vals[1].k = "list"
            /\ Len(v.vals[1].items) = 7
            /\ v.vals[1].items[1] = [k |-> "str", s |-> client.auth.database]
            /\ v.vals[1].items[2] = [k |-> "int", n |-> client.auth.uid]
            /\ v.vals[1].items[3] = [k |-> "str", s |-> client.auth.password]
            /\ v.vals[1].items[4] = [k |-> "str", s |-> p.model]
            /\ v.vals[1].items[5] = [k |-> "str", s |-> req.endpoint.name]
            /\ v.vals[1].items[6] = orm_args(p)
            /\ v.vals[1].items[7] = orm_kwargs(p)
            /\ p.type = "Search" =>
                  \A i \in 1 .. 3 :
                     <<p.limit, p.offset, p.order>>[i] = None =>
                        orm_kwargs(p).vals[i] = [k |-> "null", n |-> 0]

\* C16: for a web endpoint the params of the envelope are exactly the payload's
\* own serialization, with no service, method or args key added: [] for
\* web_database_list, and for the login request built by authenticate the
\* object {db, login, password} holding the three arguments.
C16_TransparentParams ==
    /\ (req.live /\ req.endpoint.kind = "web") =>
          /\ to_value(req.data).params = Serialize(req.data.params.inner)
          /\ req.endpoint.name = "web_database_list" =>
                to_value(req.data).params = [k |-> "list", items |-> <<>>]
    /\ AuthRan =>
          last.sent.data.params =
             [k |-> "map", keys |-> <<"db", "login", "password">>,
              vals |-> << [k |-> "str", s |-> last.args.db],
                          [k |-> "str", s |-> last.args.login],
                          [k |-> "str", s |-> last.args.password] >>]

C16_Witness ==
    /\ AuthRan
    /\ last.args.db = "db2"
    /\ last.sent.data.params.k = "map"
    /\ last.sent.data.params.vals[1] = JString("db2")
    /\ last.sent.url = <<"h", "/", "web", "/", "session", "/", "authenticate">>

\* C17: an Execute request serializes args as a flat list of length 5 + n:
\* [database, uid, password, model, method] followed by the n arguments of the
\* caller as sibling elements in their order, under service "object", method
\* "execute".
C17_ExecuteArgs ==
    (req.live /\ req.endpoint.name = "execute") =>
        LET p == req.data.params.inner
            v == to_value(req.data).params
        IN  /\ v.k = "map"
            /\ v.keys = <<"args", "method", "service">>
            /\ v.vals[2] = [k |-> "str", s |-> "execute"]
            /\ v.vals[3] = [k |-> "str", s |-> "object"]
            /\ v.vals[1].k = "list"
            /\ Len(v.vals[1].items) = 5 + Len(p.args)
            /\ v.vals[1].items[1] = [k |-> "str", s |-> client.auth.database]
            /\ v.vals[1].items[2] = [k |-> "int", n |-> client.auth.uid]
            /\ v.vals[1].items[3] = [k |-> "str", s |-> client.auth.password]
            /\ v.vals[1].items[4] = [k |-> "str", s |-> p.model]
            /\ v.vals[1].items[5] = [k |-> "str", s |-> p.method]
            /\ \A i \in 1 .. Len(p.args) : v.vals[1].items[5 + i] = p.args[i]

C17_Witness ==
    /\ req.live /\ req.endpoint.name = "execute"
    /\ Len(req.data.params.inner.args) = 2
    /\ Len(to_value(req.data).params.vals[1].items) = 7
    /\ to_value(req.data).params.vals[1].items[7] = JArray(<<JString("id")>>)

\* the transport echoed: the body it returned is a success envelope whose
\* result is the payload that was sent (the args of a service or ORM call, the
\* params of a web call)
PayloadSent ==
    IF last.args.kind = "web"
    THEN last.sent.data.params
    ELSE last.sent.data.params.vals[1]
Echoed ==
    /\ last.op = "send"
    /\ ~last.transport.fail
    /\ EnvelopeOk(last.transport.body)
    /\ ~HasError(last.transport.body)
    /\ last.transport.body.result = PayloadSent

C19_SessionForwarded ==
    origin.by = "authenticate" =>
        /\ client.alive =>
              (client.auth.state = "Authed" /\ client.auth.session_id = origin.token)
        /\ req.live => req.session_id = origin.token
        /\ (last.op = "send" /\ IsClosure(impl)) => last.sent.session = origin.token
        /\ (last.op = "send" /\ ~IsClosure(impl)) =>
              (origin.token = None /\ last.sent.session = None)

C19_Witness ==
    /\ origin = [by |-> "authenticate", token |-> Some("s1")]
    /\ last.op = "send"
    /\ last.args.endpoint = "execute"
    /\ last.sent.session = Some("s1")
    /\ impl = "ClosureBlocking"

\* the category of an error of send or authenticate: its variant, or the
\* variant of the error it wraps
Category(e) ==
    IF e.ty \in {"ClosureAuthError", "ReqwestAuthError"} /\ e.variant # "UidParseError"
    THEN e.inner
    ELSE e.variant

\* C20: conversion into the unified Error keeps the category of every error of
\* send and authenticate: a transport failure stays ClosureError or
\* ReqwestError, a JSON parse failure stays SerdeJsonError, a remote error stays
\* JsonRpcError with the same payload, and a uid failure stays UidParseError
\* with the same message, also when wrapped in ClosureAuthError or
\* ReqwestAuthError.
C20_ConversionKeepsCategory ==
    /\ last.status = "Err" =>
          /\ Category(last.err) \in
                {"ClosureError", "ReqwestError", "SerdeJsonError", "JsonRpcError",
                 "UidParseError"}
          /\ IntoError(last.err) =
                [ty |-> "Error", variant |-> Category(last.err), inner |-> "-",
                 payload |-> last.err.payload, msg |-> last.err.msg]
          /\ last.transport.fail =>
                IntoError(last.err).variant =
                   (IF IsClosure(impl) THEN "ClosureError" ELSE "ReqwestError")
          /\ Category(last.err) = "JsonRpcError" =>
                IntoError(last.err).payload = Payload(last.transport.body.error)
          /\ Category(last.err) = "UidParseError" =>
                IntoError(last.err).msg = UidParseMessage
    /\ \A variant \in {"SerdeJsonError", "UidParseError"}, msg \in {"", UidParseMessage} :
          IntoError([ty |-> "AuthenticationError", variant |-> variant, inner |-> "-",
                     payload |-> NoPayload, msg |-> msg])
             = [ty |-> "Error", variant |-> variant, inner |-> "-",
                payload |-> NoPayload, msg |-> msg]

C20_Witness ==
    /\ AuthRan
    /\ last.status = "Err"
    /\ last.err.ty = "ClosureAuthError"
    /\ last.err.variant = "ClosureError"
    /\ last.err.inner = "JsonRpcError"
    /\ last.err.payload # NoPayload
    /\ IntoError(last.err).variant = "JsonRpcError"
    /\ IntoError(last.err).payload = last.err.payload

\* C21: the transport always receives a fully-qualified URL built by the
\* client: the stored base URL followed by "/jsonrpc" for service calls (and
\* ORM calls), the stored base URL followed by the endpoint's path for web
\* calls; the URL of a request is handed to the transport as it is.
C21_FullyQualifiedUrl ==
    /\ req.live =>
          req.url = client.url \o
             (CASE req.endpoint.name = "web_database_list" ->
                      <<"/", "web", "/", "database", "/", "list">>
                [] OTHER -> <<"/", "jsonrpc">>)
    /\ last.op = "send" =>
          last.sent.url = client.url \o
             (CASE last.args.endpoint = "web_database_list" ->
                      <<"/", "web", "/", "database", "/", "list">>
                [] OTHER -> <<"/", "jsonrpc">>)
    /\ (AuthRan /\ client.alive) =>
          last.sent.url = client.url \o <<"/", "web", "/", "session", "/", "authenticate">>
    /\ Idle =>
          \A o \in next_id(client) :
             get_auth_request(client, o, "db1", "admin", "secret").url =
                client.url \o <<"/", "web", "/", "session", "/", "authenticate">>

C21_Witness ==
    /\ last.op = "send"
    /\ last.args.endpoint = "web_database_list"
    /\ client.url = <<"h", "/">>
    /\ last.sent.url = <<"h", "/", "/", "web", "/", "database", "/", "list">>
    /\ last.calls = 1

\* the URL given to new or with_url with one trailing "/" removed if present
BaseOf(url) ==
    IF Len(url) > 0 /\ url[Len(url)] = "/" THEN SubSeq(url, 1, Len(url) - 1) ELSE url

\* C25: in every reachable client state the cached JSON-RPC URL is the stored
\* base URL followed by "/jsonrpc"; new and with_url store the URL they are
\* given with one trailing "/" removed if present, and no other operation
\* (authenticate, authenticate_manual, building and sending requests) changes
\* the stored URLs.
C25_UrlInvariant ==
    /\ [](client.alive => client.url_jsonrpc = client.url \o <<"/", "jsonrpc">>)
    /\ []((client.alive /\ last.op \in {"new", "with_url"}) =>
             client.url = BaseOf(last.args.url))
    /\ [][(client.alive /\ client'.alive /\ last'.op \notin {"new", "with_url"}) =>
             (client'.url = client.url /\ client'.url_jsonrpc = client.url_jsonrpc)]_vars

C25_Witness ==
    /\ last.op = "authenticate" /\ last.status = "Ok"
    /\ client.alive /\ client.auth.state = "Authed"
    /\ client.url = <<"h", "/">>
    /\ client.url_jsonrpc = <<"h", "/", "/", "jsonrpc">>

\* C26: the id counter survives the transitions of the client: a step of
\* authenticate_manual or with_url leaves it unchanged, a successful
\* authenticate advances it by exactly one and carries it into the
\* authenticated client; the first request built after a successful
\* authenticate on a fresh client has id 2.
C26_CounterSurvives ==
    /\ [][/\ (client.alive /\ last'.op \in {"authenticate_manual", "with_url"}) =>
               (client'.alive /\ client'.id = client.id)
          /\ (client.alive /\ last'.op = "authenticate" /\ last'.status = "Ok") =>
               /\ client'.alive
               /\ client'.id = <<client.id[1], client.id[2] + 1>>
               /\ last'.sent.data.id = client.id]_vars
    /\ []((req.live /\ origin.by = "authenticate" /\ Len(ids) = 2) =>
             (req.data.id = <<0, 2>> /\ client.id = <<0, 3>>))

C26_Witness ==
    /\ req.live
    /\ origin.by = "authenticate"
    /\ Len(ids) = 2
    /\ req.data.id = <<0, 2>>
    /\ to_value(req.data).id = <<0, 2>>
    /\ client.auth.state = "Authed"

\* C27: sending an ordinary request never changes the client: whatever session
\* id the transport returns with the response, the client (its auth state, its
\* stored session id, its URLs and its id counter) is after send what it was
\* before; the step only consumes the request.
C27_SendLeavesClient ==
    [][(req.live /\ last'.op = "send") =>
          (client' = client /\ ~req'.live /\ origin' = origin /\ ids' = ids)]_vars

C27_Witness ==
    /\ last.op = "send"
    /\ last.status = "Ok"
    /\ last.transport.token = Some("s1")
    /\ client.auth.state = "Authed"
    /\ client.auth.session_id = None
    /\ client.id = <<0, 2>>

\* C28: every request built from an unauthenticated client, the login request
\* of its first authenticate included, carries no session id and is handed to
\* the transport with None.
C28_NoTokenBeforeAuth ==
    /\ (req.live /\ client.auth.state = "NotAuthed") => req.session_id = None
    /\ (last.op \in {"send", "authenticate"} /\ last.status # "panic"
          /\ last.before = "NotAuthed") =>
          last.sent.session = None

C28_Witness ==
    /\ AuthRan
    /\ last.before = "NotAuthed"
    /\ IsClosure(impl)
    /\ last.status = "Ok"
    /\ last.sent.session = None
    /\ client.auth.session_id = Some("s1")

\* C29: a request for an endpoint that requires authentication (execute and
\* the ORM methods) is only ever built from an authenticated client, and its
\* database, uid and password are those of the client's authenticated state at
\* build time (the client is borrowed, so unchanged, while the request lives);
\* the arguments of the caller hold none of them.
C29_AuthFieldsFromClient ==
    /\ (req.live /\ req.endpoint.auth) =>
          /\ client.auth.state = "Authed"
          /\ req.data.params.inner.database = client.auth.database
          /\ req.data.params.inner.uid = client.auth.uid
          /\ req.data.params.inner.password = client.auth.password
    /\ (req.live /\ req.endpoint.name \in
           {"execute", "write", "search", "check_field_access_rights"}) =>
          req.endpoint.auth
    /\ \A endpoint \in Endpoints : \A a \in CallerArgs(endpoint) :
          {"database", "uid", "password"} \cap DOMAIN a = {}

C29_Witness ==
    /\ req.live
    /\ req.endpoint.name = "search"
    /\ client.auth = [state |-> "Authed", database |-> "db2", login |-> "admin",
                      uid |-> 7, password |-> "secret", session_id |-> None]
    /\ req.data.params.inner.database = "db2"
    /\ req.data.params.inner.uid = 7

\* C23: for every outcome of the transport (a failure, undecodable bytes, an
\* error envelope, a success envelope) send and authenticate end with a Result:
\* Ok, or Err holding an error of the implementation's error type in one of
\* its categories; the transport was invoked once and nothing aborted.
C23_AlwaysAResult ==
    last.op \in {"send", "authenticate"} =>
        /\ last.status \in {"Ok", "Err"}
        /\ last.calls = 1
        /\ last.status = "Ok" => last.err = NoErr
        /\ last.status = "Err" =>
              /\ last.err.ty =
                    (IF last.op = "send"
                     THEN (IF IsClosure(impl) THEN "ClosureError" ELSE "ReqwestError")
                     ELSE (IF IsClosure(impl) THEN "ClosureAuthError" ELSE "ReqwestAuthError"))
              /\ Category(last.err) \in
                    {"ClosureError", "ReqwestError", "SerdeJsonError", "JsonRpcError",
                     "UidParseError"}
        /\ last.transport.fail => last.status = "Err"
        /\ (~last.transport.fail /\ ~last.transport.body.valid) =>
              (last.status = "Err" /\ Category(last.err) = "SerdeJsonError")

C23_Witness ==
    /\ last.op = "send"
    /\ ~last.transport.fail
    /\ ~last.transport.body.valid
    /\ last.status = "Err"
    /\ last.err.variant = "SerdeJsonError"
    /\ client.alive

\* the values of "id" a body may carry
BodyIds == { NoKey, J("null", 0), J("int", -1), J("int", 1), J("int", 1000) }

\* C24 as stated: the id of the response is not correlated with anything: for
\* any two response bodies that differ only in the value of id, decoding gives
\* the same outcome.
C24_IdIgnored ==
    (dout.fn = "parse_response" /\ din.body.valid) =>
        \A i \in BodyIds :
           parse_response([din.body EXCEPT !.id = i], din.rtype) = dout.res

\* C24: the id of the response is not compared with the id of the request: for
\* any two response bodies that differ only in the value of id, both ids
\* being integers of the u32 range, decoding gives the same outcome, so a reply
\* whose id differs from the id sent is accepted; a body whose id is missing,
\* null or not a u32 is a response-parse error whatever else it holds.
C24_IdNotCorrelated ==
    (dout.fn = "parse_response" /\ din.body.valid) =>
        /\ (din.body.id.k = "int" /\ din.body.id.n >= 0) =>
              \A i \in {J("int", 1), J("int", 1000)} :
                 parse_response([din.body EXCEPT !.id = i], din.rtype) = dout.res
        /\ ~(din.body.id.k = "int" /\ din.body.id.n >= 0) =>
              dout.res = [ok |-> FALSE, value |-> Absent,
                          err |-> [ty |-> "ParseResponseError", variant |-> "SerdeJsonError",
                                   inner |-> "-", payload |-> NoPayload, msg |-> ""]]

C24_Witness ==
    /\ dout.fn = "parse_response"
    /\ din.body.id = J("int", 1000)
    /\ din.body.result = Val("bool", 1)
    /\ din.rtype = "Bool"
    /\ dout.res.ok
    /\ dout.res = parse_response([din.body EXCEPT !.id = J("int", 1)], din.rtype)

\* the success shape parses: the envelope is well-formed and the result member
\* is of the response type (for an optional response type, also absent)
SuccessShape(b, D) ==
    /\ EnvelopeOk(b)
    /\ \/ HasResult(b) /\ OfType(b.result, D)
       \/ D = "OptList" /\ b.result.k = "absent"

\* C30: decoding tries the success shape before the failure shape: a body
\* holding both a result of the expected type and a well-formed error is
\* decoded as success and the error is dropped; the failure shape is used only
\* when the success shape does not parse.
C30_SuccessFirst ==
    dout.fn = "parse_response" =>
        /\ (/\ EnvelopeOk(din.body)
            /\ HasResult(din.body) /\ OfType(din.body.result, din.rtype)
            /\ HasError(din.body) /\ ErrorShaped(din.body.error))
           => dout.res = [ok |-> TRUE, value |-> din.body.result, err |-> NoErr]
        /\ SuccessShape(din.body, din.rtype) => dout.res.ok
        /\ (~dout.res.ok /\ dout.res.err.variant = "JsonRpcError") =>
              /\ ~SuccessShape(din.body, din.rtype)
              /\ dout.res.err.payload =
                    [code |-> din.body.error.code, message |-> din.body.error.message,
                     data |-> din.body.error.data]
        /\ (~SuccessShape(din.body, din.rtype) /\ EnvelopeOk(din.body)
              /\ ErrorShaped(din.body.error)) =>
              (~dout.res.ok /\ dout.res.err.variant = "JsonRpcError")

C30_Witness ==
    /\ dout.fn = "parse_response"
    /\ din.rtype = "Bool"
    /\ din.body.result = Val("bool", 1)
    /\ din.body.error = ErrVal(200, "Odoo Server Error", "d1")
    /\ din.body.id = J("int", 1)
    /\ din.body.jsonrpc = "2.0"
    /\ dout.res.ok /\ dout.res.value = Val("bool", 1)

\* C22: id allocation is serialized per client.  Under every interleaving of
\* the callers that share a client, at most one of them is anywhere between
\* entering build_request and giving up the request it built (allocating the
\* id and constructing the request is not interleaved with another caller's),
\* and no two requests built from the client receive the same id.
C22_AllocationSerialized ==
    /\ \A x, y \in Callers :
          (callers[x].pc # "idle" /\ callers[y].pc # "idle") => x = y
    /\ \A i, j \in 1 .. Len(ids) : i # j => ids[i] # ids[j]
    /\ \A k \in 1 .. Len(ids) : ids[k] = <<0, k>>
    /\ \A x \in Callers :
          /\ callers[x].pc \in {"read", "written"} => callers[x].id = <<0, Len(ids) + 1>>
          /\ callers[x].pc = "holding" => callers[x].id = ids[Len(ids)]

C22_Witness ==
    /\ Len(ids) = 3
    /\ callers["b"].pc = "holding"
    /\ callers["b"].id = <<0, 3>>
    /\ callers["a"].pc = "idle" /\ callers["c"].pc = "idle"
    /\ client.id = <<0, 4>>

====
